---- MODULE Spec2Model ----
(***************************************************************************)
(* Field-inspection management application.                                *)
(*                                                                         *)
(* The database part models the row-level-security policies that are in    *)
(* force after all migrations under supabase/migrations have been applied  *)
(* in timestamp order, and the statements the client pages issue against   *)
(* them.  A statement is executed on behalf of auth.uid() = u.  Permissive *)
(* policies of one command are OR-ed.  When a statement reads columns of   *)
(* the table (a WHERE filter or RETURNING, i.e. PostgREST .eq()/.select()) *)
(* the SELECT policies are applied to the existing row and to the new row  *)
(* as well.  Sub-queries inside a policy are themselves subject to the     *)
(* SELECT policies of the tables they read.                                *)
(***************************************************************************)
EXTENDS Integers, Sequences, FiniteSets, TLC

\* ------------------------------------------------------------------ bounds
MaxMissions == 1
MaxBuildings == 1
MaxMaterials == 1
MaxItems == 2
MaxFilled == 2
MaxMisc == 2
MaxPages == 3
MaxRows == 2
MaxLines == 2
MaxRequests == 2

\* ------------------------------------------------------------------ users
Null == "null"

Users == {"s1", "a1", "e1", "e2", "c1"}

user_role == {"super_admin", "admin", "expert", "constateur"}

mission_status == {"draft", "assigned", "in_progress", "completed", "cancelled"}

\* the role column of the seeded profiles rows
roleOf ==
  [u \in Users |->
     CASE u = "s1" -> "super_admin"
       [] u = "a1" -> "admin"
       [] u \in {"e1", "e2"} -> "expert"
       [] OTHER -> "constateur"]

MissionIds == 1..MaxMissions
BuildingIds == 1..MaxBuildings
MaterialIds == 1..MaxMaterials

VARIABLES
  profiles,          \* profiles table: user -> [role, is_active]
  missions,          \* missions table: id -> row
  buildings,         \* buildings table: id -> row
  mission_buildings, \* junction table: set of <<mission_id, building_id>>
  materials,         \* materials table: id -> row
  objects,           \* storage.objects of bucket mission-documents: missions with a stored plan
  last,              \* outcome of the client handler that ran in the last step
  buildingList,      \* MissionDetailPage state: buildings of the mission shown
  materialList,      \* MissionDetailPage state: materials of the mission shown
  missionStatus,     \* MissionDetailPage state: mission.status
  overallProgress,   \* the rendered overall progress, -1 before a render
  pdfPc,             \* generateMissionReportPdfBlob: where the generator stands
  numberOfPages,     \* jsPDF: pdf.getNumberOfPages()
  pdfPage,           \* jsPDF: the page that pdf.text writes to
  currentY,          \* generateMissionReportPdfBlob: let currentY
  footers,           \* page -> the footer texts written on it, as <<i, total>>
  state,             \* AuthProvider: useState<AuthState> [user, loading, error]
  storedSession,     \* the browser holds session data (localStorage, sessionStorage, cookies)
  initializationComplete, \* AuthProvider effect: let initializationComplete
  timeoutId,         \* AuthProvider effect: the safety timeout, armed / cleared / fired
  initializeAuth,    \* where initializeAuth stands: getUser, getSession, done
  requests,          \* profile fetches in flight: [edge, fallback] counts
  pendingCall,       \* the signIn / signOut call that awaits Supabase, or none
  profile,           \* the account's profiles row: [role, readable]
  screen             \* what a role-guarded route shows: [route, view]

dbvars == <<profiles, missions, buildings, mission_buildings, materials, objects, last>>
calcvars == <<buildingList, materialList, missionStatus, overallProgress>>
pdfvars == <<pdfPc, numberOfPages, pdfPage, currentY, footers>>
authvars == <<state, storedSession, initializationComplete, timeoutId, initializeAuth,
              requests, pendingCall, profile, screen>>
vars == <<dbvars, calcvars, pdfvars, authvars>>

NoMission == [exists |-> FALSE, created_by |-> Null, assigned_to |-> Null,
              status |-> "draft", plan |-> FALSE]
NoBuilding == [exists |-> FALSE, created_by |-> Null]
NoMaterial == [exists |-> FALSE, building_id |-> 0, created_by |-> Null]
NoHandler == [op |-> "none", user |-> Null, mission |-> 0, ok |-> FALSE]

\* ---------------------------------------------------------------- profiles
\* EXISTS (SELECT 1 FROM profiles WHERE id = auth.uid() AND role IN roles AND is_active = true)
\* (the own profiles row is always readable: "Users can read own profile")
ActiveRole(u, roles) ==
  /\ u \in Users
  /\ profiles[u].role \in roles
  /\ profiles[u].is_active

\* ================================================================ missions
\* an INSERT policy without the role test, to compare with: every active user
\* may create missions
ActiveUsersCanCreateMissions(u, new) == ActiveRole(u, user_role)

\* "Experts and above can create missions"  (INSERT, WITH CHECK)
ExpertsAndAboveCanCreateMissions(u, new) ==
  ActiveRole(u, {"super_admin", "admin", "expert"})

\* the SELECT policies that the policy below replaced, to compare with:
\* "Experts and above can read all missions" and "Constatateurs can read their
\* assigned missions"
ExpertsAndAboveCanReadAllMissions(u, row) ==
  \/ ActiveRole(u, {"super_admin", "admin", "expert"})
  \/ (ActiveRole(u, {"constateur"}) /\ row.assigned_to = u)

\* "Users can read missions based on role and ownership"  (SELECT, USING)
UsersCanReadMissions(u, row) ==
  \/ ActiveRole(u, {"super_admin", "admin"})
  \/ (ActiveRole(u, {"expert"}) /\ row.created_by = u)
  \/ (ActiveRole(u, {"constateur"}) /\ row.assigned_to = u)

\* "Experts and above can update missions"  (UPDATE, USING; no WITH CHECK,
\* so the USING expression also checks the new row)
ExpertsAndAboveCanUpdateMissions(u, row) ==
  ActiveRole(u, {"super_admin", "admin", "expert"})

\* "Constatateurs can update their assigned missions"  (UPDATE, USING and WITH CHECK)
ConstatateursCanUpdateAssignedMissions(u, row) ==
  row.assigned_to = u

\* a DELETE policy that leaves the admins out, to compare with
ExpertsCanDeleteOwnMissions(u, row) ==
  ActiveRole(u, {"expert"}) /\ row.created_by = u

\* "Admins and experts can delete missions"  (DELETE, USING)
AdminsAndExpertsCanDeleteMissions(u, row) ==
  /\ u \in Users
  /\ profiles[u].is_active
  /\ \/ profiles[u].role \in {"super_admin", "admin"}
     \/ (profiles[u].role = "expert" /\ row.created_by = u)

\* the policies of one command, OR-ed
MissionsSelect(u, row) == UsersCanReadMissions(u, row)
MissionsInsertCheck(u, new) == ExpertsAndAboveCanCreateMissions(u, new)
MissionsUpdateUsing(u, old) ==
  \/ ExpertsAndAboveCanUpdateMissions(u, old)
  \/ ConstatateursCanUpdateAssignedMissions(u, old)
MissionsUpdateCheck(u, new) ==
  \/ ExpertsAndAboveCanUpdateMissions(u, new)
  \/ ConstatateursCanUpdateAssignedMissions(u, new)
MissionsDeleteUsing(u, old) == AdminsAndExpertsCanDeleteMissions(u, old)

\* what the database does with a statement of user u; reads = the statement
\* refers to columns of the table (WHERE / RETURNING)
CanInsertMission(u, new, reads) ==
  /\ MissionsInsertCheck(u, new)
  /\ reads => MissionsSelect(u, new)
CanUpdateMission(u, old, new, reads) ==
  /\ old.exists
  /\ MissionsUpdateUsing(u, old)
  /\ MissionsUpdateCheck(u, new)
  /\ reads => (MissionsSelect(u, old) /\ MissionsSelect(u, new))
CanDeleteMission(u, old, reads) ==
  /\ old.exists
  /\ MissionsDeleteUsing(u, old)
  /\ reads => MissionsSelect(u, old)

\* rows of missions a sub-query of user u sees
VisibleMissions(u) ==
  {m \in MissionIds : missions[m].exists /\ MissionsSelect(u, missions[m])}

\* ======================================================= mission_buildings
\* EXISTS (SELECT 1 FROM missions WHERE id = mission_id AND created_by = auth.uid())
MissionCreatedBy(u, m) == m \in VisibleMissions(u) /\ missions[m].created_by = u

\* EXISTS (SELECT 1 FROM missions WHERE id = mission_id AND assigned_to = auth.uid())
MissionAssignedTo(u, m) == m \in VisibleMissions(u) /\ missions[m].assigned_to = u

\* ... AND status IN statuses
MissionAssignedToWithStatus(u, m, statuses) ==
  MissionAssignedTo(u, m) /\ missions[m].status \in statuses

\* "Allow adding buildings to missions based on role and access"  (INSERT, 20250625211248)
AllowAddingBuildingsToMissions(u, m) ==
  \/ ActiveRole(u, {"super_admin", "admin"})
  \/ ActiveRole(u, {"expert"})
  \/ MissionCreatedBy(u, m)
  \/ /\ ActiveRole(u, {"constateur"})
     /\ MissionAssignedToWithStatus(u, m, {"draft", "assigned", "in_progress"})

\* "Experts and above can add buildings to any mission"  (INSERT, 20250626103529)
ExpertsAndAboveCanAddBuildings(u, m) ==
  ActiveRole(u, {"super_admin", "admin", "expert"})

\* "Constatateurs can add buildings to their assigned missions"  (INSERT, 20250626103529)
ConstatateursCanAddBuildings(u, m) ==
  /\ MissionAssignedToWithStatus(u, m, {"assigned", "in_progress"})
  /\ ActiveRole(u, {"constateur"})

\* "Allow reading mission buildings based on mission access"  (SELECT, 20250625125311)
AllowReadingMissionBuildings(u, m) ==
  \/ ActiveRole(u, {"super_admin", "admin", "expert"})
  \/ MissionCreatedBy(u, m)
  \/ MissionAssignedTo(u, m)

\* "Users can read mission buildings based on mission access"  (SELECT, 20250626103529)
UsersCanReadMissionBuildings(u, m) ==
  /\ m \in VisibleMissions(u)
  /\ \/ missions[m].assigned_to = u
     \/ ActiveRole(u, {"super_admin", "admin", "expert"})

\* "Allow updating mission buildings based on mission access"  (UPDATE, USING = WITH CHECK)
AllowUpdatingMissionBuildings(u, m) ==
  \/ ActiveRole(u, {"super_admin", "admin", "expert"})
  \/ MissionCreatedBy(u, m)
  \/ MissionAssignedTo(u, m)

\* "Users can update mission buildings based on mission access"  (UPDATE, USING = WITH CHECK)
UsersCanUpdateMissionBuildings(u, m) ==
  /\ m \in VisibleMissions(u)
  /\ \/ missions[m].assigned_to = u
     \/ ActiveRole(u, {"super_admin", "admin", "expert"})

\* "Allow deleting mission buildings based on role and access"  (DELETE, 20250625211248)
AllowDeletingMissionBuildings(u, m) ==
  \/ ActiveRole(u, {"super_admin", "admin"})
  \/ (MissionCreatedBy(u, m) /\ ActiveRole(u, {"expert"}))
  \/ /\ ActiveRole(u, {"constateur"})
     /\ MissionAssignedToWithStatus(u, m, {"draft", "assigned", "in_progress"})

\* "Constatateurs can delete buildings from their assigned missions"  (DELETE, 20250626103529)
ConstatateursCanDeleteMissionBuildings(u, m) ==
  /\ MissionAssignedToWithStatus(u, m, {"assigned", "in_progress"})
  /\ ActiveRole(u, {"constateur"})

\* "Admins and above can delete any mission buildings"  (DELETE, 20250626103529)
AdminsAndAboveCanDeleteMissionBuildings(u, m) ==
  ActiveRole(u, {"super_admin", "admin"})

MissionBuildingsSelect(u, m) ==
  AllowReadingMissionBuildings(u, m) \/ UsersCanReadMissionBuildings(u, m)
MissionBuildingsInsertCheck(u, m) ==
  \/ AllowAddingBuildingsToMissions(u, m)
  \/ ExpertsAndAboveCanAddBuildings(u, m)
  \/ ConstatateursCanAddBuildings(u, m)
MissionBuildingsUpdate(u, m) ==
  AllowUpdatingMissionBuildings(u, m) \/ UsersCanUpdateMissionBuildings(u, m)
MissionBuildingsDeleteUsing(u, m) ==
  \/ AllowDeletingMissionBuildings(u, m)
  \/ ConstatateursCanDeleteMissionBuildings(u, m)
  \/ AdminsAndAboveCanDeleteMissionBuildings(u, m)

CanInsertMissionBuilding(u, m, b, reads) ==
  /\ missions[m].exists /\ buildings[b].exists     \* foreign keys
  /\ <<m, b>> \notin mission_buildings             \* primary key
  /\ MissionBuildingsInsertCheck(u, m)
  /\ reads => MissionBuildingsSelect(u, m)
\* an UPDATE that moves the link <<m, b>> to mission m2
CanUpdateMissionBuilding(u, m, b, m2, reads) ==
  /\ <<m, b>> \in mission_buildings
  /\ missions[m2].exists
  /\ (m2 # m) => <<m2, b>> \notin mission_buildings
  /\ MissionBuildingsUpdate(u, m)
  /\ MissionBuildingsUpdate(u, m2)
  /\ reads => (MissionBuildingsSelect(u, m) /\ MissionBuildingsSelect(u, m2))
CanDeleteMissionBuilding(u, m, b, reads) ==
  /\ <<m, b>> \in mission_buildings
  /\ MissionBuildingsDeleteUsing(u, m)
  /\ reads => MissionBuildingsSelect(u, m)

\* rows of mission_buildings JOIN missions a sub-query of user u sees for building b
\* with m.assigned_to = auth.uid()
LinkedAssignedMissions(u, b) ==
  {m \in VisibleMissions(u) :
     /\ <<m, b>> \in mission_buildings
     /\ MissionBuildingsSelect(u, m)
     /\ missions[m].assigned_to = u}

\* EXISTS (SELECT 1 FROM mission_buildings mb JOIN missions m ON m.id = mb.mission_id
\*         WHERE mb.building_id = b AND m.assigned_to = auth.uid())
BuildingInAssignedMission(u, b) == LinkedAssignedMissions(u, b) # {}

\* the same without the status test, to compare with
BuildingInAnyAssignedMission(u, b) == LinkedAssignedMissions(u, b) # {}

\* ... AND m.status IN ('draft', 'assigned', 'in_progress')
BuildingInOpenAssignedMission(u, b) ==
  \E m \in LinkedAssignedMissions(u, b) :
     missions[m].status \in {"draft", "assigned", "in_progress"}

\* ================================================================ buildings
\* "Users can read buildings based on role and ownership"  (SELECT)
UsersCanReadBuildings(u, b, row) ==
  \/ ActiveRole(u, {"super_admin", "admin"})
  \/ (ActiveRole(u, {"expert"}) /\ row.created_by = u)
  \/ (ActiveRole(u, {"constateur"}) /\ BuildingInAssignedMission(u, b))

\* "Allow creating buildings based on role with proper ownership"  (INSERT)
AllowCreatingBuildings(u, b, new) ==
  /\ ActiveRole(u, {"super_admin", "admin", "expert", "constateur"})
  /\ new.created_by = u

\* "Allow updating buildings based on role and ownership"  (UPDATE, USING = WITH CHECK)
AllowUpdatingBuildings(u, b, row) ==
  \/ ActiveRole(u, {"super_admin", "admin"})
  \/ (ActiveRole(u, {"expert"}) /\ row.created_by = u)
  \/ /\ row.created_by = u
     /\ ActiveRole(u, {"constateur"})
     /\ BuildingInOpenAssignedMission(u, b)

\* "Allow deleting buildings based on role and ownership"  (DELETE)
AllowDeletingBuildings(u, b, row) ==
  \/ ActiveRole(u, {"super_admin", "admin"})
  \/ (ActiveRole(u, {"expert"}) /\ row.created_by = u)
  \/ /\ row.created_by = u
     /\ ActiveRole(u, {"constateur"})
     /\ BuildingInOpenAssignedMission(u, b)

CanInsertBuilding(u, b, new, reads) ==
  /\ ~buildings[b].exists
  /\ AllowCreatingBuildings(u, b, new)
  /\ reads => UsersCanReadBuildings(u, b, new)
CanUpdateBuilding(u, b, new, reads) ==
  /\ buildings[b].exists
  /\ AllowUpdatingBuildings(u, b, buildings[b])
  /\ AllowUpdatingBuildings(u, b, new)
  /\ reads => (UsersCanReadBuildings(u, b, buildings[b]) /\ UsersCanReadBuildings(u, b, new))
CanDeleteBuilding(u, b, reads) ==
  /\ buildings[b].exists
  /\ AllowDeletingBuildings(u, b, buildings[b])
  /\ reads => UsersCanReadBuildings(u, b, buildings[b])

\* ================================================================ materials
\* "Allow creating materials based on role and mission access"  (INSERT)
AllowCreatingMaterials(u, new) ==
  \/ ActiveRole(u, {"super_admin", "admin", "expert"})
  \/ (ActiveRole(u, {"constateur"}) /\ BuildingInOpenAssignedMission(u, new.building_id))

\* "Allow reading materials based on role and access"  (SELECT); is_active is
\* true for every row the clients write
AllowReadingMaterials(u, row) == TRUE

\* "Allow updating materials based on role and access"  (UPDATE, USING = WITH CHECK)
AllowUpdatingMaterials(u, row) ==
  \/ ActiveRole(u, {"super_admin", "admin", "expert"})
  \/ /\ row.created_by = u
     /\ ActiveRole(u, {"constateur"})
     /\ BuildingInOpenAssignedMission(u, row.building_id)

\* "Allow deleting materials based on role and access"  (DELETE)
AllowDeletingMaterials(u, row) ==
  \/ ActiveRole(u, {"super_admin", "admin"})
  \/ (row.created_by = u /\ ActiveRole(u, {"expert"}))
  \/ /\ row.created_by = u
     /\ ActiveRole(u, {"constateur"})
     /\ BuildingInOpenAssignedMission(u, row.building_id)

CanInsertMaterial(u, x, new, reads) ==
  /\ ~materials[x].exists
  /\ new.building_id \in BuildingIds /\ buildings[new.building_id].exists
  /\ AllowCreatingMaterials(u, new)
  /\ reads => AllowReadingMaterials(u, new)
CanUpdateMaterial(u, x, new, reads) ==
  /\ materials[x].exists
  /\ new.building_id \in BuildingIds /\ buildings[new.building_id].exists
  /\ AllowUpdatingMaterials(u, materials[x])
  /\ AllowUpdatingMaterials(u, new)
  /\ reads => (AllowReadingMaterials(u, materials[x]) /\ AllowReadingMaterials(u, new))
CanDeleteMaterial(u, x, reads) ==
  /\ materials[x].exists
  /\ AllowDeletingMaterials(u, materials[x])
  /\ reads => AllowReadingMaterials(u, materials[x])

\* ========================================================= storage.objects
\* an INSERT policy that admits every active role, to compare with
AllowAllRolesToUploadMissionDocuments(u) == ActiveRole(u, user_role)

\* "Allow experts and above to upload mission documents"  (INSERT)
AllowUploadMissionDocuments(u) ==
  ActiveRole(u, {"super_admin", "admin", "expert"})

\* "Allow experts and above to update mission documents"  (UPDATE)
AllowUpdateMissionDocuments(u) ==
  ActiveRole(u, {"super_admin", "admin", "expert"})

\* "Allow experts and above to delete mission documents"  (DELETE)
AllowDeleteMissionDocuments(u) ==
  ActiveRole(u, {"super_admin", "admin", "expert"})

\* "Allow users to read mission documents based on access"  (SELECT) for the
\* object missions/<m>/plan-de-masse.*
AllowReadMissionDocuments(u, m) ==
  \/ ActiveRole(u, {"super_admin", "admin", "expert"})
  \/ \E x \in VisibleMissions(u) :
        /\ missions[x].assigned_to = u
        /\ ActiveRole(u, {"constateur"})
        /\ x = m

\* storage upload with upsert: true -- INSERT ... ON CONFLICT DO UPDATE
CanUpsertObject(u, m) ==
  /\ AllowUploadMissionDocuments(u)
  /\ (m \in objects) => (AllowUpdateMissionDocuments(u) /\ AllowReadMissionDocuments(u, m))

\* ============================================================== statements
Constateurs == {u \in Users : roleOf[u] = "constateur"}

\* values of the "assigned_to" select box (the constateur list) or none
Assignees == Constateurs \cup {Null}

\* the accounts that get deactivated and reactivated: an expert and a constateur
Leavers == {"e2", "c1"}

\* outcome of UPDATE missions SET ... for one row: rows the USING (and, when the
\* statement reads the row, SELECT) policies reject are skipped silently, a new
\* row the WITH CHECK policies reject raises an error
MissionUpdateOutcome(u, old, new, reads) ==
  IF ~old.exists \/ ~MissionsUpdateUsing(u, old) \/ (reads /\ ~MissionsSelect(u, old))
    THEN "no_rows"
    ELSE IF ~MissionsUpdateCheck(u, new) \/ (reads /\ ~MissionsSelect(u, new))
      THEN "error"
      ELSE "updated"

InitDb ==
  /\ profiles = [u \in Users |-> [role |-> roleOf[u], is_active |-> TRUE]]
  /\ missions = [m \in MissionIds |-> NoMission]
  /\ buildings = [b \in BuildingIds |-> NoBuilding]
  /\ mission_buildings = {}
  /\ materials = [x \in MaterialIds |-> NoMaterial]
  /\ objects = {}
  /\ last = NoHandler

\* the mission page and the report generator at rest
CalcIdle ==
  /\ buildingList = <<>> /\ materialList = <<>>
  /\ missionStatus = "draft" /\ overallProgress = -1

PdfIdle ==
  /\ pdfPc = "idle" /\ numberOfPages = 0 /\ pdfPage = 0 /\ currentY = 0
  /\ footers = <<>>

\* no AuthProvider is mounted
AuthIdle ==
  /\ state = [user |-> Null, loading |-> TRUE, error |-> Null]
  /\ storedSession = FALSE /\ initializationComplete = FALSE
  /\ timeoutId = "unset" /\ initializeAuth = "idle"
  /\ requests = [edge |-> 0, fallback |-> 0] /\ pendingCall = "none"
  /\ profile = [role |-> Null, readable |-> FALSE]
  /\ screen = [route |-> Null, view |-> Null]

\* service role: UPDATE profiles SET is_active = active WHERE id = u
SetActive(u, active) ==
  /\ profiles[u].is_active # active
  /\ u \in Leavers
  /\ profiles' = [profiles EXCEPT ![u].is_active = active]
  /\ last' = NoHandler
  /\ UNCHANGED <<missions, buildings, mission_buildings, materials, objects>>
  /\ UNCHANGED <<calcvars, pdfvars, authvars>>

\* ExpertMissionsPage.handleCreateMission: .insert(missionData).select().single()
\* (formData.building_ids is empty where no building has been fetched, so no
\* mission_buildings row is inserted)
handleCreateMission(u, m, assigned) ==
  LET new == [exists |-> TRUE, created_by |-> u, assigned_to |-> assigned,
              status |-> "draft", plan |-> FALSE] IN
  /\ ~missions[m].exists
  /\ CanInsertMission(u, new, TRUE)
  /\ missions' = [missions EXCEPT ![m] = new]
  /\ last' = NoHandler
  /\ UNCHANGED <<profiles, buildings, mission_buildings, materials, objects>>
  /\ UNCHANGED <<calcvars, pdfvars, authvars>>

\* UPDATE missions SET status = ... / assigned_to = ... (MissionDetailPage.handleStatusUpdate
\* with .eq('id'), or the same request without a filter on the row)
UpdateMissionsRow(u, m, new, reads) ==
  /\ new.exists /\ new.created_by = missions[m].created_by /\ new.plan = missions[m].plan
  /\ new # missions[m]
  /\ CanUpdateMission(u, missions[m], new, reads)
  /\ missions' = [missions EXCEPT ![m] = new]
  /\ last' = NoHandler
  /\ UNCHANGED <<profiles, buildings, mission_buildings, materials, objects>>
  /\ UNCHANGED <<calcvars, pdfvars, authvars>>

\* MissionDetailPage.handleDeleteMission: .delete().eq('id'); links go by ON DELETE CASCADE
handleDeleteMission(u, m) ==
  /\ CanDeleteMission(u, missions[m], TRUE)
  /\ missions' = [missions EXCEPT ![m] = NoMission]
  /\ mission_buildings' = {mb \in mission_buildings : mb[1] # m}
  /\ last' = NoHandler
  /\ UNCHANGED <<profiles, buildings, materials, objects>>
  /\ UNCHANGED <<calcvars, pdfvars, authvars>>

\* MissionDetailPage.handleUploadPlanDeMasse: storage upload (upsert), then
\* UPDATE missions SET plan_de_masse_* ... .eq('id'); an error of either call is
\* thrown, an UPDATE that matches no row is not an error
handleUploadPlanDeMasse(u, m) ==
  LET new == [missions[m] EXCEPT !.plan = TRUE]
      stored == CanUpsertObject(u, m)
      outcome == MissionUpdateOutcome(u, missions[m], new, TRUE) IN
  /\ m \in VisibleMissions(u)                \* the page has loaded the mission
  /\ objects' = IF stored THEN objects \cup {m} ELSE objects
  /\ missions' = IF stored /\ outcome = "updated"
                   THEN [missions EXCEPT ![m] = new] ELSE missions
  /\ last' = [op |-> "uploadPlan", user |-> u, mission |-> m,
              ok |-> stored /\ outcome # "error"]
  /\ UNCHANGED <<profiles, buildings, mission_buildings, materials>>
  /\ UNCHANGED <<calcvars, pdfvars, authvars>>

\* AddBuildingForm.handleSubmit, new building: .insert(buildingData).select().single(),
\* then .insert({mission_id, building_id}) into mission_buildings
handleSubmitAddBuilding(u, m, b) ==
  LET new == [exists |-> TRUE, created_by |-> u]
      created == CanInsertBuilding(u, b, new, TRUE) IN
  /\ m \in VisibleMissions(u)                \* the form lives on the mission page
  /\ ~buildings[b].exists
  /\ buildings' = IF created THEN [buildings EXCEPT ![b] = new] ELSE buildings
  /\ LET linked == created /\ MissionBuildingsInsertCheck(u, m) IN
       /\ mission_buildings' = IF linked THEN mission_buildings \cup {<<m, b>>}
                                         ELSE mission_buildings
       /\ last' = [op |-> "addBuilding", user |-> u, mission |-> m, ok |-> linked]
  /\ UNCHANGED <<profiles, missions, materials, objects>>
  /\ UNCHANGED <<calcvars, pdfvars, authvars>>

\* INSERT INTO buildings (created_by = auth.uid()); reads = with RETURNING
InsertBuildingsRow(u, b, reads) ==
  LET new == [exists |-> TRUE, created_by |-> u] IN
  /\ CanInsertBuilding(u, b, new, reads)
  /\ buildings' = [buildings EXCEPT ![b] = new]
  /\ last' = NoHandler
  /\ UNCHANGED <<profiles, missions, mission_buildings, materials, objects>>
  /\ UNCHANGED <<calcvars, pdfvars, authvars>>

\* DELETE FROM buildings WHERE id = b; links and materials go by ON DELETE CASCADE
DeleteBuildingsRow(u, b) ==
  /\ CanDeleteBuilding(u, b, TRUE)
  /\ buildings' = [buildings EXCEPT ![b] = NoBuilding]
  /\ mission_buildings' = {mb \in mission_buildings : mb[2] # b}
  /\ materials' = [x \in MaterialIds |->
                     IF materials[x].building_id = b THEN NoMaterial ELSE materials[x]]
  /\ last' = NoHandler
  /\ UNCHANGED <<profiles, missions, objects>>
  /\ UNCHANGED <<calcvars, pdfvars, authvars>>

\* INSERT INTO mission_buildings (mission_id, building_id)
InsertMissionBuildingsRow(u, m, b) ==
  /\ CanInsertMissionBuilding(u, m, b, FALSE)
  /\ mission_buildings' = mission_buildings \cup {<<m, b>>}
  /\ last' = NoHandler
  /\ UNCHANGED <<profiles, missions, buildings, materials, objects>>
  /\ UNCHANGED <<calcvars, pdfvars, authvars>>

\* MissionBuildingsTab.handleDeleteBuilding: .delete().eq('mission_id').eq('building_id')
handleDeleteBuilding(u, m, b) ==
  /\ CanDeleteMissionBuilding(u, m, b, TRUE)
  /\ mission_buildings' = mission_buildings \ {<<m, b>>}
  /\ last' = NoHandler
  /\ UNCHANGED <<profiles, missions, buildings, materials, objects>>
  /\ UNCHANGED <<calcvars, pdfvars, authvars>>

\* AddMaterialForm.handleSubmit, new material: .insert(materialData)
handleSubmitAddMaterial(u, x, b) ==
  LET new == [exists |-> TRUE, building_id |-> b, created_by |-> u] IN
  /\ CanInsertMaterial(u, x, new, FALSE)
  /\ materials' = [materials EXCEPT ![x] = new]
  /\ last' = NoHandler
  /\ UNCHANGED <<profiles, missions, buildings, mission_buildings, objects>>
  /\ UNCHANGED <<calcvars, pdfvars, authvars>>

\* AddMaterialForm.handleSubmit, existing material: .update({...materialData}).eq('id')
\* (materialData carries building_id of the form and created_by: user.id)
handleSubmitEditMaterial(u, x, b) ==
  LET new == [exists |-> TRUE, building_id |-> b, created_by |-> u] IN
  /\ new # materials[x]
  /\ CanUpdateMaterial(u, x, new, TRUE)
  /\ materials' = [materials EXCEPT ![x] = new]
  /\ last' = NoHandler
  /\ UNCHANGED <<profiles, missions, buildings, mission_buildings, objects>>
  /\ UNCHANGED <<calcvars, pdfvars, authvars>>

\* MissionMaterialsTab.handleDeleteMaterial: .delete().eq('id')
handleDeleteMaterial(u, x) ==
  /\ CanDeleteMaterial(u, x, TRUE)
  /\ materials' = [materials EXCEPT ![x] = NoMaterial]
  /\ last' = NoHandler
  /\ UNCHANGED <<profiles, missions, buildings, mission_buildings, objects>>
  /\ UNCHANGED <<calcvars, pdfvars, authvars>>

MissionRows(m) ==
  {[missions[m] EXCEPT !.status = st] : st \in mission_status}
    \cup {[missions[m] EXCEPT !.assigned_to = a] : a \in Assignees}

Init == InitDb /\ CalcIdle /\ PdfIdle /\ AuthIdle

\* the missions table, its storage bucket and the pages that write them
Next ==
  \/ \E u \in Users, active \in BOOLEAN : SetActive(u, active)
  \/ \E u \in Users, m \in MissionIds, a \in Assignees : handleCreateMission(u, m, a)
  \/ \E u \in Users, m \in MissionIds, reads \in BOOLEAN :
        \E new \in MissionRows(m) : UpdateMissionsRow(u, m, new, reads)
  \/ \E u \in Users, m \in MissionIds : handleDeleteMission(u, m)
  \/ \E u \in Users, m \in MissionIds : handleUploadPlanDeMasse(u, m)

Spec == Init /\ [][Next]_vars

\* buildings, materials and their links, for missions an expert has created
\* and assigned (a state Spec reaches by handleCreateMission)
InitDbBuildings ==
  /\ profiles = [u \in Users |-> [role |-> roleOf[u], is_active |-> TRUE]]
  /\ missions = [m \in MissionIds |->
                   [exists |-> TRUE, created_by |-> "e1", assigned_to |-> "c1",
                    status |-> "draft", plan |-> FALSE]]
  /\ buildings = [b \in BuildingIds |-> NoBuilding]
  /\ mission_buildings = {}
  /\ materials = [x \in MaterialIds |-> NoMaterial]
  /\ objects = {}
  /\ last = NoHandler

NextBuildings ==
  \/ \E u \in Users, active \in BOOLEAN : SetActive(u, active)
  \/ \E u \in Users, m \in MissionIds, reads \in BOOLEAN :
        \E new \in MissionRows(m) : UpdateMissionsRow(u, m, new, reads)
  \/ \E u \in Users, m \in MissionIds, b \in BuildingIds : handleSubmitAddBuilding(u, m, b)
  \/ \E u \in Users, b \in BuildingIds, reads \in BOOLEAN : InsertBuildingsRow(u, b, reads)
  \/ \E u \in Users, b \in BuildingIds : DeleteBuildingsRow(u, b)
  \/ \E u \in Users, m \in MissionIds, b \in BuildingIds : InsertMissionBuildingsRow(u, m, b)
  \/ \E u \in Users, m \in MissionIds, b \in BuildingIds : handleDeleteBuilding(u, m, b)
  \/ \E u \in Users, x \in MaterialIds, b \in BuildingIds : handleSubmitAddMaterial(u, x, b)
  \/ \E u \in Users, x \in MaterialIds, b \in BuildingIds : handleSubmitEditMaterial(u, x, b)
  \/ \E u \in Users, x \in MaterialIds : handleDeleteMaterial(u, x)

InitBuildings == InitDbBuildings /\ CalcIdle /\ PdfIdle /\ AuthIdle

SpecBuildings == InitBuildings /\ [][NextBuildings]_vars

\* ================================================================ profiles
\* "Users can read own profile" and "Users can read active profiles"  (SELECT)
UsersCanReadOwnProfile(u, id, row) == u = id

UsersCanReadActiveProfiles(u, id, row) == row.is_active

\* "Users can update own profile"  (UPDATE, USING (auth.uid() = id)
\* WITH CHECK (auth.uid() = id))
UsersCanUpdateOwnProfile(u, id, row) == u = id

ProfilesSelect(u, id, row) ==
  UsersCanReadOwnProfile(u, id, row) \/ UsersCanReadActiveProfiles(u, id, row)

\* UPDATE profiles SET ... WHERE id = id, as authenticated user u
CanUpdateProfile(u, id, new, reads) ==
  /\ UsersCanUpdateOwnProfile(u, id, profiles[id])
  /\ UsersCanUpdateOwnProfile(u, id, new)
  /\ reads => (ProfilesSelect(u, id, profiles[id]) /\ ProfilesSelect(u, id, new))

\* the role and is_active that an update request carries (a field left out of
\* the request keeps its stored value)
ProfileUpdates == [role : user_role, is_active : BOOLEAN]

\* AuthContext.updateProfile of the signed-in user u:
\* .from('profiles').update(profileUpdates).eq('id', state.user.id);
\* `id` other than u is the same request sent for another row
updateProfile(u, id, updates) ==
  LET ok == CanUpdateProfile(u, id, updates, TRUE) IN
  /\ updates # profiles[id]
  /\ profiles' = IF ok THEN [profiles EXCEPT ![id] = updates] ELSE profiles
  /\ last' = [op |-> "updateProfile", user |-> u, mission |-> 0, ok |-> ok]
  /\ UNCHANGED <<missions, buildings, mission_buildings, materials, objects>>
  /\ UNCHANGED <<calcvars, pdfvars, authvars>>

\* the accounts that send profile updates: an expert and a constateur, for
\* their own row and for each other's
NextProfiles ==
  \/ \E u \in Users, active \in BOOLEAN : SetActive(u, active)
  \/ \E u \in Leavers, id \in Leavers, updates \in ProfileUpdates : updateProfile(u, id, updates)
  \/ \E u \in Users, m \in MissionIds, a \in Assignees : handleCreateMission(u, m, a)

InitProfiles == InitDb /\ CalcIdle /\ PdfIdle /\ AuthIdle

SpecProfiles == InitProfiles /\ [][NextProfiles]_vars

\* ================================================= JavaScript number arithmetic
\* The progress calculators compute with JavaScript numbers: IEEE 754 binary64,
\* every operation rounded to nearest, ties to even.  A non-negative number is
\* [m, e], standing for m * 2^e, with m a natural number of exactly 53 bits
\* (or zero) held as a little-endian sequence of limbs below Base, without
\* leading zero limbs.
Base == 2^15

Max2(a, b) == IF a >= b THEN a ELSE b

Min2(a, b) == IF a <= b THEN a ELSE b

Limb(a, i) == IF i <= Len(a) THEN a[i] ELSE 0

\* a without its leading zero limbs
BNorm(a) ==
  IF a = <<>> THEN a
  ELSE LET nz == {i \in 1..Len(a) : a[i] # 0} IN
       IF nz = {} THEN <<>>
       ELSE SubSeq(a, 1, CHOOSE i \in nz : \A j \in nz : j <= i)

\* n < Base^3
BFromInt(n) == BNorm(<<n % Base, (n \div Base) % Base, n \div (Base * Base)>>)

\* a < Base^2
BToInt(a) == Limb(a, 1) + Base * Limb(a, 2)

\* the carry into each limb of the limb sums s (each below 2 * Base - 1): it
\* comes from a limb below that overflows and is passed on by the limbs between
BCarries(s) ==
  [i \in 1..(Len(s) + 1) |->
     IF \E j \in 1..(i - 1) : s[j] >= Base /\ \A k \in (j + 1)..(i - 1) : s[k] = Base - 1
       THEN 1 ELSE 0]

\* the limb sums s with their carries taken in
BCarried(s, carry) ==
  BNorm([i \in 1..(Len(s) + 1) |->
           IF i <= Len(s) THEN (s[i] + carry[i]) % Base ELSE carry[i]])

\* the number of the limb sums s
BSum(s) == BCarried(s, BCarries(s))

\* a + b
BAdd(a, b) ==
  IF a = <<>> THEN b
  ELSE IF b = <<>> THEN a
  ELSE BSum([i \in 1..Max2(Len(a), Len(b)) |-> Limb(a, i) + Limb(b, i)])

\* a - b for a >= b; a limb borrows when a limb below falls short and the
\* limbs between are equal
BSub(a, b) ==
  IF b = <<>> THEN a
  ELSE BNorm([i \in 1..Len(a) |->
                (a[i] - Limb(b, i) + Base
                   - (IF \E j \in 1..(i - 1) :
                           a[j] < Limb(b, j)
                             /\ \A k \in (j + 1)..(i - 1) : a[k] = Limb(b, k)
                        THEN 1 ELSE 0)) % Base])

\* -1, 0, 1 as a < b, a = b, a > b
BCmp(a, b) ==
  IF Len(a) < Len(b) THEN -1
  ELSE IF Len(a) > Len(b) THEN 1
  ELSE LET df == {i \in 1..Len(a) : a[i] # b[i]} IN
       IF df = {} THEN 0
       ELSE IF \E i \in df : a[i] < b[i] /\ \A j \in df : j <= i THEN -1 ELSE 1

Zeros(n) == [i \in 1..n |-> 0]

\* a * k for 0 <= k <= Base: the low halves of the limb products plus their
\* high halves one limb up
BMulSmall(a, k) ==
  IF a = <<>> \/ k = 0 THEN <<>>
  ELSE BAdd([i \in 1..Len(a) |-> (a[i] * k) % Base],
            <<0>> \o [i \in 1..Len(a) |-> (a[i] * k) \div Base])

\* a * b for b of at most 4 limbs (53 bits)
BMul(a, b) ==
  IF a = <<>> \/ b = <<>> THEN <<>>
  ELSE
  BAdd(BAdd(BMulSmall(a, Limb(b, 1)), Zeros(1) \o BMulSmall(a, Limb(b, 2))),
       BAdd(Zeros(2) \o BMulSmall(a, Limb(b, 3)), Zeros(3) \o BMulSmall(a, Limb(b, 4))))

\* a * 2^k
BShl(a, k) ==
  IF a = <<>> THEN a
  ELSE BNorm(Zeros(k \div 15) \o BMulSmall(a, 2^(k % 15)))

\* floor(a / 2^k)
BShr(a, k) ==
  IF Len(a) <= k \div 15 THEN <<>>
  ELSE BNorm([i \in 1..(Len(a) - k \div 15) |->
                (a[i + k \div 15] \div 2^(k % 15))
                  + (Limb(a, i + k \div 15 + 1) % 2^(k % 15)) * 2^(15 - (k % 15))])

\* the number of bits of a limb
IntBits(n) == IF n = 0 THEN 0 ELSE CHOOSE k \in 1..15 : 2^(k - 1) <= n /\ n < 2^k

BitLen(a) == IF a = <<>> THEN 0 ELSE (Len(a) - 1) * 15 + IntBits(a[Len(a)])

BOne == <<1>>

FZero == [m |-> <<>>, e |-> 0]

\* q, the number n without its sh lowest bits, and how those bits compare
\* with one half
BRoundRem(n, sh, q) ==
  [q |-> q, c |-> BCmp(BSub(n, BShl(q, sh)), BShl(BOne, sh - 1))]

\* q * 2^e for q of 53 or, after rounding up, 54 bits
FNormal(q, e) ==
  IF BitLen(q) > 53 THEN [m |-> BShr(q, 1), e |-> e + 1]
                    ELSE [m |-> q, e |-> e]

\* round to nearest, a tie to the even neighbour
FRoundUp(s, e) ==
  IF s.c > 0 \/ (s.c = 0 /\ s.q[1] % 2 = 1) THEN FNormal(BAdd(s.q, BOne), e)
                                            ELSE [m |-> s.q, e |-> e]

\* the binary64 nearest to n * 2^e, for n of l bits
FRoundBits(n, e, l) ==
  IF l = 0 THEN FZero
  ELSE IF l <= 53 THEN [m |-> BShl(n, 53 - l), e |-> e - (53 - l)]
  ELSE FRoundUp(BRoundRem(n, l - 53, BShr(n, l - 53)), e + (l - 53))

\* the binary64 nearest to n * 2^e
FRound(n, e) == FRoundBits(n, e, BitLen(n))

\* an integer as a number
FromInt(n) == FRound(BFromInt(n), 0)

\* x * y
FMul(x, y) ==
  IF x.m = <<>> \/ y.m = <<>> THEN FZero
  ELSE FRound(BMul(x.m, y.m), x.e + y.e)

\* x + y
FAdd(x, y) ==
  IF x.m = <<>> THEN y
  ELSE IF y.m = <<>> THEN x
  ELSE FRound(BAdd(BShl(x.m, x.e - Min2(x.e, y.e)), BShl(y.m, y.e - Min2(x.e, y.e))),
              Min2(x.e, y.e))

\* the quotient limb t of r1 by d, and the remainder left
DivLimbBy(r1, d, t) == [q |-> t, r |-> BSub(r1, BMulSmall(d, t))]

\* the quotient limb is top, the estimate from the leading limbs, or one or
\* two less
DivLimbFrom(r1, d, top) ==
  DivLimbBy(r1, d, CHOOSE c \in {top - 2, top - 1, top} :
                     /\ c >= 0
                     /\ BCmp(BMulSmall(d, c), r1) <= 0
                     /\ BCmp(BMulSmall(d, c + 1), r1) > 0)

\* one limb of long division: for r < d and d of 60 bits, the limb
\* floor(r * Base / d) and the remainder left
DivLimb(r, d) ==
  IF r = <<>> THEN [q |-> 0, r |-> r]
  ELSE DivLimbFrom(<<0>> \o r, d,
                   Min2(Base - 1, (Limb(r, 4) * Base + Limb(r, 3)) \div d[4]))

\* the quotient limbs so far (the latest first) with one more
DivPush(q, dl) == [q |-> <<dl.q>> \o q, r |-> dl.r]

DivStep(s, d) == DivPush(s.q, DivLimb(s.r, d))

\* k more quotient limbs of long division by d, none left to find once the
\* remainder is zero
RECURSIVE LongDiv(_, _, _)
LongDiv(s, d, k) ==
  IF k = 0 THEN s
  ELSE IF s.r = <<>> THEN [q |-> Zeros(k) \o s.q, r |-> s.r]
  ELSE LongDiv(DivStep(s, d), d, k - 1)

\* the quotient q with a sticky bit for the remainder r, rounded
FDivSticky(q, r, e) ==
  IF r = <<>> THEN FRound(BAdd(q, q), e)
  ELSE FRound(BAdd(BAdd(q, q), BOne), e)

FDivEnd(s, e) == FDivSticky(BNorm(s.q), s.r, e)

\* n0 / d * 2^(e + 61), both of 60 bits: the leading quotient bit, then 4
\* limbs of 15 more
FDivBy(n0, d, e) ==
  IF BCmp(n0, d) >= 0 THEN FDivEnd(LongDiv([q |-> <<1>>, r |-> BSub(n0, d)], d, 4), e)
                      ELSE FDivEnd(LongDiv([q |-> <<0>>, r |-> n0], d, 4), e)

\* x / y for y # 0
FDiv(x, y) ==
  IF x.m = <<>> THEN FZero
  ELSE FDivBy(BShl(x.m, 7), BShl(y.m, 7), x.e - y.e - 61)

\* Math.round: the nearest integer, a tie going up (for numbers below Base^2)
MathRound(x) ==
  IF x.m = <<>> THEN 0
  ELSE IF x.e >= 0 THEN BToInt(BShl(x.m, x.e))
  ELSE BToInt(BShr(BAdd(x.m, BShl(BOne, -x.e - 1)), -x.e))


\* ================================================== progress calculations
\* a building of the list: how many of its fixed form fields are filled and
\* how many miscellaneous elements it has; a material: how many of its form
\* fields are filled
technicalElementKeys ==
  {"semelles", "elevations", "ossature", "portes", "fenetres", "grillage", "chassis",
   "facade", "toiture", "sol", "plafond", "escalier", "cloisonnement"}

\* designation, 3 surface areas, contiguity and communication, 2 financial
\* values, and one field per technical element key
BuildingFixedFields == 1 + 3 + 2 + 2 + Cardinality(technicalElementKeys)

\* name and building, 5 technical details, condition, 2 financial values
MaterialFields == 2 + 5 + 1 + 2

BuildingInputs ==
  [filled : 0..Min2(MaxFilled, BuildingFixedFields), misc : 0..MaxMisc]

MaterialInputs == [filled : 0..Min2(MaxFilled, MaterialFields)]

\* calculateBuildingProgress: Math.round((progress / totalFields) * 100)
calculateBuildingProgress(building) ==
  LET progress == building.filled + building.misc
      totalFields == BuildingFixedFields + building.misc IN
  IF totalFields > 0
    THEN MathRound(FMul(FDiv(FromInt(progress), FromInt(totalFields)), FromInt(100)))
    ELSE 0

\* calculateMaterialProgress: Math.round((progress / totalFields) * 100)
calculateMaterialProgress(material) ==
  LET progress == material.filled
      totalFields == MaterialFields IN
  IF totalFields > 0
    THEN MathRound(FMul(FDiv(FromInt(progress), FromInt(totalFields)), FromInt(100)))
    ELSE 0

\* buildings.reduce((sum, building) => sum + calculateBuildingProgress(building), 0)
RECURSIVE SumBuildingProgress(_)
SumBuildingProgress(list) ==
  IF list = <<>> THEN 0
  ELSE calculateBuildingProgress(Head(list)) + SumBuildingProgress(Tail(list))

\* materials.reduce((sum, material) => sum + calculateMaterialProgress(material), 0)
RECURSIVE SumMaterialProgress(_)
SumMaterialProgress(list) ==
  IF list = <<>> THEN 0
  ELSE calculateMaterialProgress(Head(list)) + SumMaterialProgress(Tail(list))

\* the literals 0.6 and 0.4: the binary64 numbers nearest to 6/10 and 4/10
BuildingsWeight == FDiv(FromInt(6), FromInt(10))

MaterialsWeight == FDiv(FromInt(4), FromInt(10))

\* totalProgress and totalWeight after `if (buildings.length > 0) { ... }`
\* (a sum of 0 gives 0 / length * 0.6 = 0 exactly)
AfterBuildings(bs) ==
  IF Len(bs) > 0
    THEN LET sum == SumBuildingProgress(bs) IN
         IF sum = 0
           THEN [totalProgress |-> FZero, totalWeight |-> FAdd(FZero, BuildingsWeight)]
           ELSE LET buildingsProgress == FDiv(FromInt(sum), FromInt(Len(bs))) IN
                [totalProgress |-> FAdd(FZero, FMul(buildingsProgress, BuildingsWeight)),
                 totalWeight   |-> FAdd(FZero, BuildingsWeight)]
    ELSE [totalProgress |-> FZero, totalWeight |-> FZero]

\* totalProgress and totalWeight after `if (materials.length > 0) { ... }`
AfterMaterials(t, ms) ==
  IF Len(ms) > 0
    THEN LET sum == SumMaterialProgress(ms) IN
         IF sum = 0
           THEN [totalProgress |-> t.totalProgress,
                 totalWeight   |-> FAdd(t.totalWeight, MaterialsWeight)]
           ELSE LET materialsProgress == FDiv(FromInt(sum), FromInt(Len(ms))) IN
                [totalProgress |-> FAdd(t.totalProgress,
                                        FMul(materialsProgress, MaterialsWeight)),
                 totalWeight   |-> FAdd(t.totalWeight, MaterialsWeight)]
    ELSE t

\* calculateOverallMissionProgress(buildings, materials, missionStatus)
calculateOverallMissionProgress(bs, ms, st) ==
  IF st = "completed" THEN 100
  ELSE IF st = "cancelled" THEN 0
  ELSE IF Len(bs) = 0 /\ Len(ms) = 0
    THEN (CASE st = "draft" -> 0
            [] st = "assigned" -> 15
            [] st = "in_progress" -> 50
            [] OTHER -> 0)
  ELSE
    LET t == AfterMaterials(AfterBuildings(bs), ms) IN
    IF t.totalWeight.m # <<>> THEN MathRound(FDiv(t.totalProgress, t.totalWeight)) ELSE 0

\* MissionDetailPage: a building of the mission is fetched into the page state
fetchBuilding(building) ==
  /\ Len(buildingList) < MaxItems
  /\ buildingList' = Append(buildingList, building)
  /\ overallProgress' = -1
  /\ UNCHANGED <<materialList, missionStatus, dbvars, pdfvars, authvars>>

\* MissionDetailPage: a material of the mission is fetched into the page state
fetchMaterial(material) ==
  /\ Len(materialList) < MaxItems
  /\ materialList' = Append(materialList, material)
  /\ overallProgress' = -1
  /\ UNCHANGED <<buildingList, missionStatus, dbvars, pdfvars, authvars>>

\* MissionDetailPage: the mission's status changes in the page state
setMissionStatus(st) ==
  /\ st # missionStatus
  /\ missionStatus' = st
  /\ overallProgress' = -1
  /\ UNCHANGED <<buildingList, materialList, dbvars, pdfvars, authvars>>

\* MissionDetailPage render:
\* const overallProgress = calculateOverallMissionProgress(buildings, materials, mission.status)
renderOverallProgress ==
  /\ overallProgress = -1
  /\ overallProgress' =
       calculateOverallMissionProgress(buildingList, materialList, missionStatus)
  /\ UNCHANGED <<buildingList, materialList, missionStatus, dbvars, pdfvars, authvars>>

NextProgress ==
  \/ \E building \in BuildingInputs : fetchBuilding(building)
  \/ \E material \in MaterialInputs : fetchMaterial(material)
  \/ \E st \in mission_status : setMissionStatus(st)
  \/ renderOverallProgress

InitProgress == InitDb /\ CalcIdle /\ PdfIdle /\ AuthIdle

SpecProgress == InitProgress /\ [][NextProgress]_vars

\* ======================================================= mission report PDF
\* generateMissionReportPdfBlob lays the report out top to bottom: currentY is
\* the height reached on the page being written, and a helper that finds too
\* little room left adds a page.  Which helpers run, and on how many rows and
\* lines, depends on the mission's data; every sequence of them is allowed
\* here.  A layout position is [pages, y]: the number of pages of the document,
\* the last of them being written, and currentY.
PDF_CONFIG ==
  [margins    |-> [top |-> 25, bottom |-> 25],
   pageHeight |-> 297,
   lineHeight |-> 6,
   fontSize   |-> [h3 |-> 14, h4 |-> 12],
   spacing    |-> [afterH1 |-> 15, afterH2 |-> 10, beforeH3 |-> 12, afterH3 |-> 8,
                   beforeH4 |-> 8, afterH4 |-> 5, afterParagraph |-> 4,
                   betweenBuildings |-> 12, betweenMaterials |-> 8,
                   tableRowHeight |-> 7, sectionSeparator |-> 15]]

\* checkPageBreak(pdf, currentY, requiredHeight)
checkPageBreak(d, requiredHeight) ==
  LET maxY == PDF_CONFIG.pageHeight - PDF_CONFIG.margins.bottom - 20 IN
  IF d.y + requiredHeight > maxY
    THEN [pages |-> d.pages + 1, y |-> PDF_CONFIG.margins.top]
    ELSE d

\* addWrappedText for a text that splitTextToSize cuts into `lines` lines
RECURSIVE addWrappedText(_, _)
addWrappedText(d, lines) ==
  IF lines = 0 THEN d
  ELSE LET c == checkPageBreak(d, PDF_CONFIG.lineHeight + 2) IN
       addWrappedText([c EXCEPT !.y = @ + PDF_CONFIG.lineHeight], lines - 1)

\* the data.forEach of addTable; a row is the number of lines of its wrapped
\* value, 0 for a row without value, which is skipped
RECURSIVE addTableRows(_, _)
addTableRows(d, data) ==
  IF data = <<>> THEN d
  ELSE IF Head(data) = 0 THEN addTableRows(d, Tail(data))
  ELSE LET c == checkPageBreak(d, PDF_CONFIG.spacing.tableRowHeight) IN
       addTableRows(
         [c EXCEPT !.y = Max2(@ + PDF_CONFIG.spacing.tableRowHeight,
                              @ + Head(data) * PDF_CONFIG.lineHeight)],
         Tail(data))

\* addTable(pdf, data, startY)
addTable(d, data) ==
  [addTableRows(d, data) EXCEPT !.y = @ + PDF_CONFIG.spacing.afterParagraph]

\* addH3Section(pdf, title, currentY)
addH3Section(d) ==
  LET c == checkPageBreak([d EXCEPT !.y = @ + PDF_CONFIG.spacing.beforeH3],
                          PDF_CONFIG.fontSize.h3 + PDF_CONFIG.spacing.afterH3 + 10) IN
  [c EXCEPT !.y = @ + PDF_CONFIG.spacing.afterH3]

\* addH4SubSection(pdf, title, currentY)
addH4SubSection(d) ==
  LET c == checkPageBreak([d EXCEPT !.y = @ + PDF_CONFIG.spacing.beforeH4],
                          PDF_CONFIG.fontSize.h4 + PDF_CONFIG.spacing.afterH4 + 5) IN
  [c EXCEPT !.y = @ + PDF_CONFIG.spacing.afterH4]

\* the room the generator asks for before a building, a material and the
\* materials of a building
ReservedHeights == {50, 40, 30}

\* the spacings the generator adds to currentY itself
Spacings ==
  {PDF_CONFIG.spacing.sectionSeparator, PDF_CONFIG.spacing.afterParagraph,
   PDF_CONFIG.spacing.betweenBuildings, PDF_CONFIG.spacing.betweenMaterials}

TableData == UNION {[1..n -> 0..MaxLines] : n \in 1..MaxRows}

\* the position the generator is at
Cursor == [pages |-> numberOfPages, y |-> currentY]

\* the generator moves on to position d; pdf.addPage makes the new page the
\* one written to.  Layouts are followed as long as they stay on the page.
MoveTo(d) ==
  /\ pdfPc \in {"front", "body"}
  /\ d.pages <= MaxPages
  /\ d.y <= PDF_CONFIG.pageHeight
  /\ numberOfPages' = d.pages
  /\ pdfPage' = d.pages
  /\ currentY' = d.y
  /\ UNCHANGED <<pdfPc, footers, dbvars, calcvars, authvars>>

\* new jsPDF(...), then the H1 and H2 titles and the timestamp on page 1
newReport ==
  /\ pdfPc \in {"idle", "done"}
  /\ pdfPc' = "front"
  /\ numberOfPages' = 1
  /\ pdfPage' = 1
  /\ currentY' = PDF_CONFIG.margins.top + PDF_CONFIG.spacing.afterH1
                   + PDF_CONFIG.spacing.afterH2 + PDF_CONFIG.spacing.sectionSeparator
  /\ footers' = <<>>
  /\ UNCHANGED <<dbvars, calcvars, authvars>>

H3SectionStep == MoveTo(addH3Section(Cursor))

H4SubSectionStep == MoveTo(addH4SubSection(Cursor))

TableStep(data) == MoveTo(addTable(Cursor, data))

WrappedTextStep(lines) == MoveTo(addWrappedText(Cursor, lines))

\* currentY = checkPageBreak(pdf, currentY, 50 | 40 | 30) in the buildings and
\* materials loops
ReserveStep(requiredHeight) ==
  /\ pdfPc = "body"
  /\ MoveTo(checkPageBreak(Cursor, requiredHeight))

\* currentY += PDF_CONFIG.spacing...
SpacingStep(s) == MoveTo([Cursor EXCEPT !.y = @ + s])

\* pdf.addPage(); currentY = PDF_CONFIG.margins.top, before the buildings
forcedPageBreak ==
  /\ pdfPc = "front"
  /\ numberOfPages < MaxPages
  /\ pdfPc' = "body"
  /\ numberOfPages' = numberOfPages + 1
  /\ pdfPage' = numberOfPages + 1
  /\ currentY' = PDF_CONFIG.margins.top
  /\ UNCHANGED <<footers, dbvars, calcvars, authvars>>

\* a footer loop without pdf.setPage, to compare with: the text goes to the
\* page written last
setPageOmitted(i) == numberOfPages

\* pdf.setPage(i): the page that pdf.text writes to from then on
setPage(i) == i

\* const totalPages = pdf.getNumberOfPages(); for i = 1..totalPages:
\* pdf.setPage(i); pdf.text(`Page ${i} / ${totalPages}`, ...); then the blob is
\* returned
addPageFooters ==
  /\ pdfPc = "body"
  /\ LET totalPages == numberOfPages IN
     /\ footers' = [p \in 1..numberOfPages |->
                      {<<i, totalPages>> : i \in {j \in 1..totalPages : setPage(j) = p}}]
     /\ pdfPage' = setPage(totalPages)
  /\ pdfPc' = "done"
  /\ UNCHANGED <<numberOfPages, currentY, dbvars, calcvars, authvars>>

NextPdf ==
  \/ newReport
  \/ H3SectionStep
  \/ H4SubSectionStep
  \/ \E data \in TableData : TableStep(data)
  \/ \E lines \in 1..MaxLines : WrappedTextStep(lines)
  \/ \E requiredHeight \in ReservedHeights : ReserveStep(requiredHeight)
  \/ \E s \in Spacings : SpacingStep(s)
  \/ forcedPageBreak
  \/ addPageFooters

InitPdf == InitDb /\ CalcIdle /\ PdfIdle /\ AuthIdle

SpecPdf == InitPdf /\ [][NextPdf]_vars

\* ============================================================= AuthProvider
\* AuthState; the user object is represented by its role
InitialState == [user |-> Null, loading |-> TRUE, error |-> Null]
SignedOut == [user |-> Null, loading |-> FALSE, error |-> Null]
Failed == [user |-> Null, loading |-> FALSE, error |-> "error"]
SignedIn(role) == [user |-> role, loading |-> FALSE, error |-> Null]

Routes == {"/add-mission", "/expert-missions", "/constateur-management", "/expert-management"}

allowedRoles(route) ==
  IF route = "/expert-management" THEN {"super_admin", "admin"}
  ELSE {"super_admin", "admin", "expert"}

\* a RoleGuard that lets every signed-in user through, to compare with
RoleGuardAnyRole(st, allowed, children) ==
  IF st.loading THEN "spinner"
  ELSE IF st.user = Null THEN "redirect"
  ELSE children

RoleGuard(st, allowed, children) ==
  IF st.loading THEN "spinner"
  ELSE IF st.user = Null THEN "redirect"
  ELSE IF st.user \notin allowed THEN "denied"
  ELSE children

shouldRedirectToLogin(errorMessage, currentUser) ==
  errorMessage # Null /\ currentUser = Null

\* ProtectedRoute as App uses it, without allowedRoles
ProtectedRoute(st, children) ==
  IF st.loading THEN "spinner"
  ELSE IF st.error # Null
    THEN IF shouldRedirectToLogin(st.error, st.user) THEN "redirect" ELSE "error"
  ELSE IF st.user = Null THEN "redirect"
  ELSE children

\* <ProtectedRoute><RoleGuard allowedRoles={...}><Layout><Page/></Layout></RoleGuard></ProtectedRoute>
App(route, st) == ProtectedRoute(st, RoleGuard(st, allowedRoles(route), "page"))

\* setState; the provider's consumers re-render with the new state
setState(st) ==
  /\ state' = st
  /\ screen' = [route |-> screen.route, view |-> App(screen.route, st)]

\* the user opens another role-guarded route
navigate(route) ==
  /\ route # screen.route
  /\ screen' = [route |-> route, view |-> App(route, state)]
  /\ UNCHANGED <<state, storedSession, initializationComplete, timeoutId, initializeAuth,
                 requests, pendingCall, profile>>
  /\ UNCHANGED <<dbvars, calcvars, pdfvars>>

clearTimeout == IF timeoutId = "armed" THEN "cleared" ELSE timeoutId

\* a clearSession that resets the state only, to compare with
clearSessionStateOnly ==
  /\ setState(SignedOut)
  /\ UNCHANGED storedSession

\* clearSession: the state is reset, localStorage, sessionStorage and the auth
\* cookies are emptied
clearSession ==
  /\ setState(SignedOut)
  /\ storedSession' = FALSE

InFlight == requests.edge + requests.fallback

\* the 5 s safety timeout of initializeAuth fires
timeoutFires ==
  /\ timeoutId = "armed"
  /\ timeoutId' = "fired"
  /\ IF ~initializationComplete
       THEN setState(Failed) /\ initializationComplete' = TRUE
       ELSE UNCHANGED <<state, screen, initializationComplete>>
  /\ UNCHANGED <<storedSession, initializeAuth, requests, pendingCall, profile>>
  /\ UNCHANGED <<dbvars, calcvars, pdfvars>>

\* initializeAuth: supabase.auth.getUser() wins the race; result is the user of
\* the stored session, no user, or userError
getUserAnswers(result) ==
  /\ initializeAuth = "getUser"
  /\ result = "user" => storedSession
  /\ IF initializationComplete
       THEN /\ initializeAuth' = "done"
            /\ UNCHANGED <<state, screen, initializationComplete, timeoutId>>
       ELSE /\ timeoutId' = clearTimeout
            /\ initializationComplete' = TRUE
            /\ CASE result = "error" ->
                      setState(Failed) /\ initializeAuth' = "done"
                 [] result = "none" ->
                      setState(SignedOut) /\ initializeAuth' = "done"
                 [] OTHER ->
                      UNCHANGED <<state, screen>> /\ initializeAuth' = "getSession"
  /\ UNCHANGED <<storedSession, requests, pendingCall, profile>>
  /\ UNCHANGED <<dbvars, calcvars, pdfvars>>

\* initializeAuth: the 5 s timeoutPromise wins the race and rejects; the outer
\* catch reports it unless the initialization is already complete
getUserTimeout ==
  /\ initializeAuth = "getUser"
  /\ initializeAuth' = "done"
  /\ IF ~initializationComplete
       THEN /\ timeoutId' = clearTimeout
            /\ setState(Failed)
            /\ initializationComplete' = TRUE
       ELSE UNCHANGED <<state, screen, initializationComplete, timeoutId>>
  /\ UNCHANGED <<storedSession, requests, pendingCall, profile>>
  /\ UNCHANGED <<dbvars, calcvars, pdfvars>>

\* initializeAuth: supabase.auth.getSession() answers; with an access token the
\* Edge Function is called, without one fetchUserProfileFallback
getSessionAnswers(token) ==
  /\ initializeAuth = "getSession"
  /\ initializeAuth' = "done"
  /\ requests' = IF token THEN [requests EXCEPT !.edge = @ + 1]
                 ELSE [requests EXCEPT !.fallback = @ + 1]
  /\ UNCHANGED <<state, screen, storedSession, initializationComplete, timeoutId,
                 pendingCall, profile>>
  /\ UNCHANGED <<dbvars, calcvars, pdfvars>>

\* the onAuthStateChange callback: SIGNED_OUT, an event that carries a session
\* (token valid or expired), or an event without a session
onAuthStateChange(event, valid) ==
  /\ timeoutId' = clearTimeout
  /\ CASE event = "SIGNED_OUT" ->
            clearSession /\ UNCHANGED requests
       [] event = "SESSION" ->
            /\ InFlight < MaxRequests
            /\ requests' = IF valid THEN [requests EXCEPT !.edge = @ + 1]
                           ELSE [requests EXCEPT !.fallback = @ + 1]
            /\ UNCHANGED <<state, screen, storedSession>>
       [] OTHER ->
            setState(SignedOut) /\ UNCHANGED <<requests, storedSession>>
  /\ UNCHANGED <<initializationComplete, initializeAuth, pendingCall, profile>>
  /\ UNCHANGED <<dbvars, calcvars, pdfvars>>

\* fetchUserProfileViaEdgeFunction: the fetch answers.  A response that is not
\* ok or not a success is thrown inside the try and caught by the function's
\* own catch, which sets the error state and returns normally: the caller's
\* catch (edgeError) is never entered
edgeFunctionAnswers(ok) ==
  /\ requests.edge > 0
  /\ ok => profile.role # Null
  /\ requests' = [requests EXCEPT !.edge = @ - 1]
  /\ IF ok THEN setState(SignedIn(profile.role)) ELSE setState(Failed)
  /\ UNCHANGED <<storedSession, initializationComplete, timeoutId, initializeAuth,
                 pendingCall, profile>>
  /\ UNCHANGED <<dbvars, calcvars, pdfvars>>

\* fetchUserProfileFallback: the profiles query answers; a missing row is
\* inserted with role constateur
fetchUserProfileFallback(created) ==
  /\ requests.fallback > 0
  /\ requests' = [requests EXCEPT !.fallback = @ - 1]
  /\ CASE ~profile.readable ->
            setState(Failed) /\ UNCHANGED profile
       [] profile.readable /\ profile.role # Null ->
            setState(SignedIn(profile.role)) /\ UNCHANGED profile
       [] profile.readable /\ profile.role = Null /\ created ->
            /\ setState(SignedIn("constateur"))
            /\ profile' = [profile EXCEPT !.role = "constateur"]
       [] OTHER ->
            setState(Failed) /\ UNCHANGED profile
  /\ UNCHANGED <<storedSession, initializationComplete, timeoutId, initializeAuth,
                 pendingCall>>
  /\ UNCHANGED <<dbvars, calcvars, pdfvars>>

\* signIn up to the await of signInWithPassword
signIn ==
  /\ pendingCall = "none"
  /\ pendingCall' = "signIn"
  /\ setState([state EXCEPT !.loading = TRUE, !.error = Null])
  /\ UNCHANGED <<storedSession, initializationComplete, timeoutId, initializeAuth,
                 requests, profile>>
  /\ UNCHANGED <<dbvars, calcvars, pdfvars>>

\* signInWithPassword answers: on success the client stores the session and the
\* state is left to the SIGNED_IN event, an error is reported and rethrown
signInAnswers(ok) ==
  /\ pendingCall = "signIn"
  /\ pendingCall' = "none"
  /\ IF ok THEN storedSession' = TRUE /\ UNCHANGED <<state, screen>>
     ELSE /\ setState([state EXCEPT !.loading = FALSE, !.error = "error"])
          /\ UNCHANGED storedSession
  /\ UNCHANGED <<initializationComplete, timeoutId, initializeAuth, requests, profile>>
  /\ UNCHANGED <<dbvars, calcvars, pdfvars>>

\* signOut up to the await of supabase.auth.signOut()
signOut ==
  /\ pendingCall = "none"
  /\ pendingCall' = "signOut"
  /\ setState([state EXCEPT !.loading = TRUE, !.error = Null])
  /\ UNCHANGED <<storedSession, initializationComplete, timeoutId, initializeAuth,
                 requests, profile>>
  /\ UNCHANGED <<dbvars, calcvars, pdfvars>>

\* supabase.auth.signOut() succeeds, returns an error (logged) or throws
\* (caught): clearSession() runs in each case
signOutAnswers(outcome) ==
  /\ pendingCall = "signOut"
  /\ pendingCall' = "none"
  /\ clearSession
  /\ last' = [op |-> "signOut", user |-> Null, mission |-> 0, ok |-> outcome = "ok"]
  /\ UNCHANGED <<initializationComplete, timeoutId, initializeAuth, requests, profile>>
  /\ UNCHANGED <<profiles, missions, buildings, mission_buildings, materials, objects>>
  /\ UNCHANGED <<calcvars, pdfvars>>

NextAuth ==
  \/ timeoutFires
  \/ \E result \in {"user", "none", "error"} : getUserAnswers(result)
  \/ getUserTimeout
  \/ \E token \in BOOLEAN : getSessionAnswers(token)
  \/ \E event \in {"SIGNED_OUT", "SESSION", "NO_SESSION"}, valid \in BOOLEAN :
       onAuthStateChange(event, valid)
  \/ \E ok \in BOOLEAN : edgeFunctionAnswers(ok)
  \/ \E created \in BOOLEAN : fetchUserProfileFallback(created)
  \/ signIn
  \/ \E ok \in BOOLEAN : signInAnswers(ok)
  \/ signOut
  \/ \E outcome \in {"ok", "error", "throws"} : signOutAnswers(outcome)
  \/ \E route \in Routes : navigate(route)

\* the provider has mounted: initializeAuth has armed the safety timeout and
\* awaits the race of getUser against its 5 s timeout
InitAuth ==
  /\ InitDb /\ CalcIdle /\ PdfIdle
  /\ state = InitialState
  /\ storedSession \in BOOLEAN
  /\ initializationComplete = FALSE
  /\ timeoutId = "armed"
  /\ initializeAuth = "getUser"
  /\ requests = [edge |-> 0, fallback |-> 0]
  /\ pendingCall = "none"
  /\ profile \in [role : user_role \cup {Null}, readable : BOOLEAN]
  /\ \E route \in Routes : screen = [route |-> route, view |-> App(route, InitialState)]

SpecAuth == InitAuth /\ [][NextAuth]_vars

\* timers fire and the local getSession answers; a network request (getUser,
\* the Edge Function, the profiles query, signOut) may never answer
SpecAuthFair ==
  /\ SpecAuth
  /\ WF_vars(timeoutFires)
  /\ WF_vars(getUserTimeout)
  /\ WF_vars(\E token \in BOOLEAN : getSessionAnswers(token))

\* ================================================================== claims
Rank(r) == CASE r = "constateur" -> 0 [] r = "expert" -> 1 [] r = "admin" -> 2 [] OTHER -> 3

Active(u) == profiles[u].is_active

OpenStatuses == {"draft", "assigned", "in_progress"}

ExistingMissions == {m \in MissionIds : missions[m].exists}

\* the policies allow command op of user u on the missions row
MissionsAllow(op, u, row, reads) ==
  CASE op = "SELECT" -> MissionsSelect(u, row)
    [] op = "INSERT" -> CanInsertMission(u, row, reads)
    [] op = "UPDATE" -> CanUpdateMission(u, row, row, reads)
    [] OTHER -> CanDeleteMission(u, row, reads)

Commands == {"SELECT", "INSERT", "UPDATE", "DELETE"}

C4_ConstateurUploadsPlan ==
  (/\ last.op = "uploadPlan"
   /\ ActiveRole(last.user, {"constateur"})
   /\ missions[last.mission].assigned_to = last.user)
     => (last.ok /\ last.mission \in objects /\ missions[last.mission].plan)

\* C4 amended: the upload succeeds exactly for an active super_admin, admin or
\* expert who can read the mission - the object is stored and the plan fields
\* are set; for a constateur the bucket rejects the object and the upload fails.
C4_ExpertsAndAboveUploadPlan ==
  last.op = "uploadPlan" =>
    /\ last.ok <=> ActiveRole(last.user, {"super_admin", "admin", "expert"})
    /\ last.ok => (last.mission \in objects /\ missions[last.mission].plan)
    /\ profiles[last.user].role = "constateur" => ~last.ok

\* an expert has uploaded the site plan of a mission
C4_Witness ==
  /\ last.op = "uploadPlan" /\ last.ok
  /\ profiles[last.user].role = "expert"
  /\ last.mission \in objects /\ missions[last.mission].plan

\* building b is linked to a mission assigned to u whose status is draft,
\* assigned or in_progress (read from the tables, not through the policies)
LinkedToOpenMissionOf(u, b) ==
  \E m \in ExistingMissions :
    /\ <<m, b>> \in mission_buildings
    /\ missions[m].assigned_to = u
    /\ missions[m].status \in OpenStatuses

\* C5 as stated: when an active constateur submits AddBuildingForm for a new
\* building on a mission assigned to them with status draft, assigned or
\* in_progress, the building is inserted and returned and the link is inserted.
C5_ConstateurAddsBuilding ==
  (/\ last.op = "addBuilding"
   /\ ActiveRole(last.user, {"constateur"})
   /\ missions[last.mission].assigned_to = last.user
   /\ missions[last.mission].status \in OpenStatuses)
     => last.ok

\* C6: an active constateur can INSERT, UPDATE or DELETE a materials row only
\* if the material's building (the old and the new one for an UPDATE) is linked
\* to a mission assigned to them with status draft, assigned or in_progress.
C6_ConstateurMaterialWrites ==
  \A u \in Users, x \in MaterialIds, b \in BuildingIds, c \in Users, reads \in BOOLEAN :
    LET new == [exists |-> TRUE, building_id |-> b, created_by |-> c] IN
    ActiveRole(u, {"constateur"}) =>
      /\ CanInsertMaterial(u, x, new, reads) => LinkedToOpenMissionOf(u, b)
      /\ CanUpdateMaterial(u, x, new, reads) =>
           (LinkedToOpenMissionOf(u, materials[x].building_id) /\ LinkedToOpenMissionOf(u, b))
      /\ CanDeleteMaterial(u, x, reads) => LinkedToOpenMissionOf(u, materials[x].building_id)

\* a material the constateur has recorded and may still delete
C6_Witness ==
  \E x \in MaterialIds :
    /\ materials[x].exists /\ materials[x].created_by = "c1"
    /\ ActiveRole("c1", {"constateur"})
    /\ LinkedToOpenMissionOf("c1", materials[x].building_id)
    /\ CanDeleteMaterial("c1", x, TRUE)

\* buildings linked to mission m and to no other mission
BuildingsOnlyOf(m) ==
  {b \in BuildingIds :
     /\ <<m, b>> \in mission_buildings
     /\ \A m2 \in MissionIds \ {m} : <<m2, b>> \notin mission_buildings}

\* C7 as stated: once a mission is completed or cancelled its assigned
\* constateur can neither UPDATE the missions row nor insert, update or delete
\* the mission's buildings, materials or mission_buildings links.
C7_ClosedMissionIsReadOnly ==
  \A u \in Users, m \in ExistingMissions, reads \in BOOLEAN :
    (/\ ActiveRole(u, {"constateur"})
     /\ missions[m].assigned_to = u
     /\ missions[m].status \in {"completed", "cancelled"})
      => /\ \A new \in MissionRows(m) : ~CanUpdateMission(u, missions[m], new, reads)
         /\ \A b \in BuildingIds :
              /\ ~CanInsertMissionBuilding(u, m, b, reads)
              /\ ~CanDeleteMissionBuilding(u, m, b, reads)
              /\ \A m2 \in MissionIds : ~CanUpdateMissionBuilding(u, m, b, m2, reads)
         /\ \A b \in BuildingsOnlyOf(m) :
              /\ ~CanUpdateBuilding(u, b, buildings[b], reads)
              /\ ~CanDeleteBuilding(u, b, reads)
              /\ \A x \in MaterialIds, c \in Users :
                   LET new == [exists |-> TRUE, building_id |-> b, created_by |-> c] IN
                   /\ ~CanInsertMaterial(u, x, new, reads)
                   /\ materials[x].building_id = b =>
                        (~CanUpdateMaterial(u, x, new, reads) /\ ~CanDeleteMaterial(u, x, reads))

\* C8: a missions row is inserted only by a user whose profile is active and
\* whose role is super_admin, admin or expert (every client inserts with
\* created_by = auth.uid()).
C8_OnlyActiveExpertsAndAboveCreateMissions ==
  [][\A m \in MissionIds :
       (~missions[m].exists /\ missions'[m].exists) =>
          /\ profiles[missions'[m].created_by].is_active
          /\ profiles[missions'[m].created_by].role \in {"super_admin", "admin", "expert"}]_dbvars

\* a mission exists, created while another expert was deactivated
C8_Witness ==
  \E m \in ExistingMissions :
    /\ missions[m].created_by = "e1" /\ missions[m].status = "draft"
    /\ ~Active("e2")

\* the integer nearest to num / den, a tie going up (Math.round of the exact
\* quotient)
RoundedQuotient(num, den) == (2 * num + den) \div (2 * den)

\* C9 as stated: for a mission neither completed nor cancelled, the overall
\* progress shown is an integer from 0 to 100; with buildings and materials it
\* is round(0.6 * mean building progress + 0.4 * mean material progress), and
\* with only one of the two lists it is the rounded mean progress of that list.
C9_OverallProgressIsWeightedMean ==
  (overallProgress # -1 /\ missionStatus \notin {"completed", "cancelled"}) =>
    LET nb == Len(buildingList)
        nm == Len(materialList)
        sb == SumBuildingProgress(buildingList)
        sm == SumMaterialProgress(materialList) IN
    /\ overallProgress \in 0..100
    /\ (nb > 0 /\ nm > 0) =>
         overallProgress = RoundedQuotient(6 * sb * nm + 4 * sm * nb, 10 * nb * nm)
    /\ (nb > 0 /\ nm = 0) => overallProgress = RoundedQuotient(sb, nb)
    /\ (nb = 0 /\ nm > 0) => overallProgress = RoundedQuotient(sm, nm)

\* C10: when the report is returned, every page of the document, whether it is
\* the first, the page forced before the buildings or one added by
\* checkPageBreak, carries exactly the footer "Page i / N" with i its position
\* and N the number of pages of the document.
C10_EveryPageCarriesItsFooter ==
  pdfPc = "done" =>
    /\ DOMAIN footers = 1..numberOfPages
    /\ \A p \in 1..numberOfPages : footers[p] = {<<p, numberOfPages>>}

\* a report is returned that has a page added by checkPageBreak, besides the
\* first page and the page forced before the buildings
C10_Witness == pdfPc = "done" /\ numberOfPages >= 3 /\ footers[3] = {<<3, numberOfPages>>}

\* C11 as stated: no authenticated user changes the role or the is_active flag
\* of their own profiles row, through updateProfile or a direct UPDATE.
C11_OwnRoleAndActiveAreFixed ==
  [][last'.op = "updateProfile" =>
       /\ profiles'[last'.user].role = profiles[last'.user].role
       /\ profiles'[last'.user].is_active = profiles[last'.user].is_active]_dbvars

C13_MissionCreatorReadsLinkedBuildings ==
  \A u \in Users, m \in ExistingMissions, b \in BuildingIds :
    (/\ ActiveRole(u, {"expert"})
     /\ missions[m].created_by = u
     /\ <<m, b>> \in mission_buildings)
       => UsersCanReadBuildings(u, b, buildings[b])

\* C14 as stated: after AuthProvider has mounted, whatever getUser, the Edge
\* Function and the auth events do, loading eventually becomes false
C14_LoadingEventuallyFalse == <>(state.loading = FALSE)

\* C15 as stated: with a readable profiles row, a profile fetch that ends
\* leaves the user signed in with no error, or (the Edge Function having
\* failed) hands over to fetchUserProfileFallback
C15_EdgeFailureFallsBack ==
  [][(/\ profile.readable /\ profile.role # Null
      /\ requests' # requests
      /\ requests'.edge + requests'.fallback < InFlight)
       => state' = SignedIn(profile.role)]_authvars

\* C16: the step that finishes signOut(), whatever supabase.auth.signOut did,
\* leaves user = null, loading = false, error = null and no stored session data
C16_SignOutClears ==
  [][(pendingCall = "signOut" /\ pendingCall' = "none")
       => (state' = SignedOut /\ ~storedSession')]_authvars

C16_SignedOutAfterFailure ==
  /\ last.op = "signOut" /\ ~last.ok
  /\ pendingCall = "none" /\ state = SignedOut /\ ~storedSession

\* C17: a role-guarded route shows its page only while loading is false, no
\* error is set, a user is signed in and the user's role is allowed on the
\* route; otherwise it shows a spinner, an error, access denied or a redirect
C17_PageOnlyForAllowedRole ==
  /\ screen.view \in {"page", "spinner", "error", "denied", "redirect"}
  /\ screen.view = "page" <=>
       (/\ ~state.loading /\ state.error = Null /\ state.user # Null
        /\ state.user \in allowedRoles(screen.route))

C17_PageShown ==
  /\ screen.view = "page" /\ screen.route = "/expert-management"
  /\ state.user = "admin"


====
